---- MODULE Spec2Model ----
(***************************************************************************)
(* Model of the seesaw PostgreSQL job store (PgJobStore): the jobs table,  *)
(* the claim / retry / lease / dead-letter protocol, and the row locks     *)
(* PostgreSQL takes for the statements the store issues; of the            *)
(* dispatcher that routes commands by execution mode to an effect or to a  *)
(* job queue; of the event bus and the runtime loop that feeds a machine;  *)
(* and of the serde round trip of a command.                               *)
(*                                                                         *)
(* Time is in milliseconds.  Every store call is made by a client session  *)
(* (a worker); a call that is one SQL statement is one step, and the two   *)
(* calls that hold row locks across a round trip (claim_ready's            *)
(* FOR UPDATE SKIP LOCKED + UPDATE, mark_failed's SELECT FOR UPDATE +      *)
(* UPDATE + COMMIT) are two steps with the lock held in between.  A plain  *)
(* UPDATE or DELETE waits for a row lock held by another transaction and   *)
(* then re-evaluates its WHERE clause on the committed row (READ           *)
(* COMMITTED), which is modelled by enabling the step only when the rows   *)
(* it touches are unlocked.                                                *)
(***************************************************************************)
EXTENDS Integers, Sequences, FiniteSets, TLC

VARIABLES jobs, now, lock, tx, enqueued, scheduled, bus, results,
          subs, mach, rt

vars == <<jobs, now, lock, tx, enqueued, scheduled, bus, results,
          subs, mach, rt>>

(* The job store's variables and the dispatcher's. *)
svars == <<jobs, now, lock, tx>>

dvars == <<enqueued, scheduled, bus, results>>

(* The bus subscriptions and the runtime loop's machine. *)
bvars == <<subs, mach>>

(* Everything but the job store. *)
xvars == <<enqueued, scheduled, bus, results, subs, mach, rt>>

(* ------------------------------ bounds --------------------------------- *)

MaxTicks == 2
MaxRetries == 2
MaxPriority == 1
MaxLimit == 2
MaxAttemptB == 64
MaxDispatch == 2
(* Largest user id of a command that is serialized and read back. *)
MaxUuid == 6
(* Number of events emitted on the bus. *)
MaxEmit == 3

(* --------------------------- program constants ------------------------- *)

TickMs == 1000
default_lease_ms == 1000
MaxBackoffSecs == 3600

JobIds == {"j1", "j2"}
Workers == {"w1", "w2"}
Errors == {"boom", "still broken"}
FailureKind == {"Retryable", "NonRetryable"}

NULL == "null"
NullTs == -1
NoTx == "none"


(* ---------------- 64-bit signed arithmetic (i64) ------------------------ *)
(* An i64 is its two's-complement bit pattern, eight 8-bit limbs, least    *)
(* significant first.                                                      *)

LimbBase == 256
I64Limbs == 8

(* The i64 of a small non-negative number. *)
RECURSIVE LimbsOf(_, _)
LimbsOf(n, k) ==
    IF k = 0 THEN <<>> ELSE <<n % LimbBase>> \o LimbsOf(n \div LimbBase, k - 1)

I64(n) == LimbsOf(n, I64Limbs)

IsNegI64(x) == x[I64Limbs] >= LimbBase \div 2

(* Column k of the schoolbook product x * y, k in 1..2*I64Limbs-1. *)
RECURSIVE ColumnSum(_, _, _, _)
ColumnSum(x, y, k, i) ==
    IF i > I64Limbs THEN 0
    ELSE (IF k + 1 - i \in 1..I64Limbs THEN x[i] * y[k + 1 - i] ELSE 0)
         + ColumnSum(x, y, k, i + 1)

(* The limbs of the full 128-bit product, carries propagated. *)
RECURSIVE ProductLimbs(_, _, _, _)
ProductLimbs(x, y, k, carry) ==
    IF k > 2 * I64Limbs THEN <<>>
    ELSE LET t == (IF k < 2 * I64Limbs THEN ColumnSum(x, y, k, 1) ELSE 0) + carry
         IN  <<t % LimbBase>> \o ProductLimbs(x, y, k + 1, t \div LimbBase)

(* x * y of two non-negative i64: the wrapped result and whether the exact *)
(* product does not fit in an i64.                                         *)
MulI64(x, y) ==
    LET full == ProductLimbs(x, y, 1, 0)
        low  == [k \in 1..I64Limbs |-> full[k]]
    IN  [ value    |-> low,
          overflow |-> \/ IsNegI64(low)
                       \/ \E k \in (I64Limbs + 1)..(2 * I64Limbs) : full[k] # 0 ]

(* i64::pow: square and multiply.  overflow accumulates over every         *)
(* multiplication, valid while the operands are still exact.               *)
RECURSIVE PowLoop(_, _, _, _)
PowLoop(base, acc, exp, ovf) ==
    IF exp > 1
    THEN LET a == IF exp % 2 = 1 THEN MulI64(acc, base)
                  ELSE [value |-> acc, overflow |-> FALSE]
             b == MulI64(base, base)
         IN  PowLoop(b.value, a.value, exp \div 2,
                     ovf \/ a.overflow \/ b.overflow)
    ELSE LET r == MulI64(acc, base)
         IN  [value |-> r.value, overflow |-> ovf \/ r.overflow]

PowI64(base, exp) ==
    IF exp = 0 THEN [value |-> I64(1), overflow |-> FALSE]
    ELSE PowLoop(I64(base), I64(1), exp, FALSE)

(* Ord::min on i64 against a small non-negative bound. *)
SmallValue(x) == x[1] + LimbBase * x[2]
FitsTwoLimbs(x) == \A k \in 3..I64Limbs : x[k] = 0

MinI64(x, bound) ==
    IF IsNegI64(x) THEN x
    ELSE IF FitsTwoLimbs(x) /\ SmallValue(x) < bound THEN x
    ELSE I64(bound)

(* chrono Duration::seconds panics outside +-i64::MAX/1000 seconds.  After *)
(* min(3600) only a negative value can be outside; every negative value    *)
(* below -2^54 is (the only one 2^n wraps to is i64::MIN).                 *)
DurationSecondsPanics(x) ==
    IsNegI64(x) /\ ~(x[8] = LimbBase - 1 /\ x[7] >= 192)

(* delay_secs and retry_at of mark_failed for the row's attempt.           *)
(* overflow_checks is the build's setting: with it an overflowing          *)
(* multiplication panics, without it the result wraps.                     *)
delay_secs(attempt, overflow_checks) ==
    LET p == PowI64(2, attempt)
        d == MinI64(p.value, MaxBackoffSecs)
    IN  IF (overflow_checks /\ p.overflow) \/ DurationSecondsPanics(d)
        THEN [panic |-> TRUE, secs |-> 0]
        ELSE [panic |-> FALSE, secs |-> SmallValue(d)]

(* ------------------------------ the jobs table ------------------------- *)

NewJob(max_retries, priority, run_at) ==
    [ status           |-> "pending",
      version          |-> 1,
      attempt          |-> 1,
      max_retries      |-> max_retries,
      priority         |-> priority,
      run_at           |-> run_at,
      worker_id        |-> NULL,
      lease_expires_at |-> NullTs,
      error_message    |-> NULL,
      error_kind       |-> NULL,
      updated_at       |-> 0 ]

IdleTx ==
    [ pc |-> "idle", sel |-> {}, lease |-> NullTs, job |-> NULL,
      attempt |-> 0, max_retries |-> 0, error |-> NULL, kind |-> NULL ]

Rows == DOMAIN jobs

(* TestJobQueue::new(), EventBus::new(): nothing queued, nothing emitted,  *)
(* no dispatch_one call made.                                              *)
DispatcherNew ==
    /\ enqueued = << >>
    /\ scheduled = << >>
    /\ bus = << >>
    /\ results = << >>

Subscribers == {"runtime", "tap", "log"}

(* The receivers held by tasks other than the runtime loop. *)
Taps == Subscribers \ {"runtime"}

(* A receiver that does not exist (never subscribed, or pruned). *)
NoSub == [state |-> "none", since |-> 0, next |-> 1, seen |-> << >>]

(* The machine before the runtime loop has delivered anything. *)
IdleMachine ==
    [pc |-> "idle", active |-> 0, event |-> {}, decided |-> << >>,
     commands |-> << >>]

(* EventBus::new() with no receiver yet. *)
BusNew ==
    /\ subs = [s \in Subscribers |-> NoSub]
    /\ mach = IdleMachine

(* No command is being serialized. *)
RoundTripNone == rt = [original |-> {}, json |-> {}, back |-> {}]

(* The table holds one freshly inserted row (the schema's defaults), due  *)
(* at once or scheduled; the other id names no row.                        *)
Init ==
    /\ \E m \in 0..MaxRetries, r \in {0, TickMs} :
         jobs = [j \in {"j1"} |-> NewJob(m, 0, r)]
    /\ now = 0
    /\ lock = [j \in JobIds |-> NoTx]
    /\ tx = [w \in Workers |-> IdleTx]
    /\ DispatcherNew
    /\ BusNew
    /\ RoundTripNone

(* A row lock held by a transaction other than w's. *)
LockedByOther(j, w) == lock[j] \notin {NoTx, w}

(* ------------------------------ claim_ready ---------------------------- *)

ClaimWhere_AnyStatus(row) == row.run_at <= now

ClaimWhere_IgnoresRunAt(row) == row.status = "pending"

ClaimWhere_StrictlyDue(row) == row.status = "pending" /\ row.run_at < now

(* WHERE status = 'pending' AND run_at <= NOW() *)
ClaimWhere(row) == row.status = "pending" /\ row.run_at <= now

ClaimOrderBefore_PriorityDesc(a, b) ==
    \/ a.priority > b.priority
    \/ a.priority = b.priority /\ a.run_at < b.run_at

(* ORDER BY priority ASC, run_at ASC: a sorts strictly before b. *)
ClaimOrderBefore(a, b) ==
    \/ a.priority < b.priority
    \/ a.priority = b.priority /\ a.run_at < b.run_at

SkipLocked_NoRowLock(j, w) == FALSE

(* FOR UPDATE SKIP LOCKED: rows locked by another transaction are passed   *)
(* over by the scan.                                                       *)
SkipLocked(j, w) == LockedByOther(j, w)

Claimable_WaitsForLocks(w, limit) ==
    LET cand == { j \in Rows : ClaimWhere(jobs[j]) }
        n    == IF Cardinality(cand) < limit THEN Cardinality(cand) ELSE limit
    IN  IF \E j \in cand : LockedByOther(j, w) THEN {}
        ELSE { S \in SUBSET cand :
                 /\ Cardinality(S) = n
                 /\ \A a \in S, b \in cand \ S :
                      ~ClaimOrderBefore(jobs[b], jobs[a]) }

(* The rows the claimable CTE can return: the first `limit` unskipped      *)
(* qualifying rows in the order; rows that tie are taken in any order.     *)
Claimable(w, limit) ==
    LET cand == { j \in Rows : ClaimWhere(jobs[j]) /\ ~SkipLocked(j, w) }
        n    == IF Cardinality(cand) < limit THEN Cardinality(cand) ELSE limit
    IN  { S \in SUBSET cand :
            /\ Cardinality(S) = n
            /\ \A a \in S, b \in cand \ S : ~ClaimOrderBefore(jobs[b], jobs[a]) }

(* SET status = 'running', worker_id = $2, lease_expires_at = $3 *)
ClaimUpdate(row, w, lease) ==
    [row EXCEPT !.status = "running", !.worker_id = w,
                !.lease_expires_at = lease, !.updated_at = now]

(* The statement starts: the lease is computed by the caller, the CTE      *)
(* locks the rows it selects.                                              *)
ClaimReadyLock(w, limit) ==
    /\ tx[w].pc = "idle"
    /\ \E S \in Claimable(w, limit) :
         /\ lock' = [j \in DOMAIN lock |-> IF j \in S THEN w ELSE lock[j]]
         /\ tx' = [tx EXCEPT ![w] = [IdleTx EXCEPT !.pc = "claim", !.sel = S,
                                       !.lease = now + default_lease_ms]]
    /\ UNCHANGED <<jobs, now>>

(* The UPDATE of the selected rows, RETURNING them; the statement's        *)
(* transaction commits and its locks are released.                         *)
ClaimReadyReturn(w) ==
    /\ tx[w].pc = "claim"
    /\ LET S == tx[w].sel \cap Rows
       IN  /\ jobs' = [j \in Rows |->
                         IF j \in S THEN ClaimUpdate(jobs[j], w, tx[w].lease)
                         ELSE jobs[j]]
    /\ lock' = [j \in DOMAIN lock |-> IF lock[j] = w THEN NoTx ELSE lock[j]]
    /\ tx' = [tx EXCEPT ![w] = IdleTx]
    /\ UNCHANGED now

(* ------------------------------ mark_succeeded ------------------------- *)

(* SET status = 'succeeded' WHERE id = $1 *)
SucceededUpdate(row) ==
    [row EXCEPT !.status = "succeeded", !.updated_at = now]

MarkSucceeded(w, j) ==
    /\ tx[w].pc = "idle"
    /\ ~LockedByOther(j, w)
    /\ jobs' = IF j \in Rows THEN [jobs EXCEPT ![j] = SucceededUpdate(@)] ELSE jobs
    /\ UNCHANGED <<now, lock, tx>>

(* ------------------------------ mark_failed ---------------------------- *)

RetryArm_OffByOne(kind, attempt, max_retries) ==
    kind = "Retryable" /\ attempt <= max_retries

(* FailureKind::Retryable if attempt < max_retries *)
RetryArm(kind, attempt, max_retries) ==
    kind = "Retryable" /\ attempt < max_retries

(* The retry UPDATE. *)
RetryUpdate(row, retry_at, error) ==
    [row EXCEPT !.status = "pending", !.run_at = retry_at,
                !.attempt = row.attempt + 1,
                !.error_message = error, !.error_kind = "retryable",
                !.worker_id = NULL, !.lease_expires_at = NullTs,
                !.updated_at = now]

ErrorKindText(kind) ==
    IF kind = "Retryable" THEN "retryable" ELSE "non_retryable"

(* The dead-letter UPDATE. *)
DeadLetterUpdate_StatusFailed(row, error, kind) ==
    [row EXCEPT !.status = "failed", !.error_message = error,
                !.error_kind = ErrorKindText(kind), !.updated_at = now]

DeadLetterUpdate(row, error, kind) ==
    [row EXCEPT !.status = "dead_letter", !.error_message = error,
                !.error_kind = ErrorKindText(kind), !.updated_at = now]

MarkFailedBegin_NoForUpdate(w, j, error, kind) ==
    /\ tx[w].pc = "idle"
    /\ IF j \in Rows
       THEN /\ tx' = [tx EXCEPT ![w] =
                        [IdleTx EXCEPT !.pc = "fail", !.job = j,
                                       !.attempt = jobs[j].attempt,
                                       !.max_retries = jobs[j].max_retries,
                                       !.error = error, !.kind = kind]]
            /\ UNCHANGED lock
       ELSE /\ UNCHANGED <<lock, tx>>
    /\ UNCHANGED <<jobs, now>>

(* BEGIN; SELECT attempt, max_retries ... FOR UPDATE.  fetch_one fails     *)
(* when the row is gone and the dropped transaction rolls back.            *)
MarkFailedBegin(w, j, error, kind) ==
    /\ tx[w].pc = "idle"
    /\ ~LockedByOther(j, w)
    /\ IF j \in Rows
       THEN /\ lock' = [lock EXCEPT ![j] = w]
            /\ tx' = [tx EXCEPT ![w] =
                        [IdleTx EXCEPT !.pc = "fail", !.job = j,
                                       !.attempt = jobs[j].attempt,
                                       !.max_retries = jobs[j].max_retries,
                                       !.error = error, !.kind = kind]]
       ELSE /\ UNCHANGED <<lock, tx>>
    /\ UNCHANGED <<jobs, now>>

(* UPDATE ... WHERE id = $3 on the table. *)
UpdateRow(j, row) == IF j \in Rows THEN [jobs EXCEPT ![j] = row] ELSE jobs

(* The match on kind, the UPDATE and the COMMIT; the outcomes of the       *)
(* retry arm.  A panic while computing retry_at drops the transaction,     *)
(* which rolls back and leaves the row as it was.                          *)
MarkFailedPanic(w, overflow_checks) ==
    /\ RetryArm(tx[w].kind, tx[w].attempt, tx[w].max_retries)
    /\ delay_secs(tx[w].attempt, overflow_checks).panic
    /\ jobs' = jobs

MarkFailedRetry(w, overflow_checks) ==
    /\ RetryArm(tx[w].kind, tx[w].attempt, tx[w].max_retries)
    /\ LET d == delay_secs(tx[w].attempt, overflow_checks)
           j == tx[w].job
       IN  /\ ~d.panic
           /\ jobs' = UpdateRow(j, RetryUpdate(jobs[j], now + d.secs * 1000,
                                               tx[w].error))

MarkFailedDeadLetter(w) ==
    /\ ~RetryArm(tx[w].kind, tx[w].attempt, tx[w].max_retries)
    /\ LET j == tx[w].job
       IN  jobs' = UpdateRow(j, DeadLetterUpdate(jobs[j], tx[w].error,
                                                 tx[w].kind))

MarkFailedCommit(w) ==
    /\ tx[w].pc = "fail"
    /\ tx' = [tx EXCEPT ![w] = IdleTx]
    /\ lock' = [j \in DOMAIN lock |-> IF lock[j] = w THEN NoTx ELSE lock[j]]
    /\ UNCHANGED now
    /\ \/ \E overflow_checks \in BOOLEAN : MarkFailedPanic(w, overflow_checks)
       \/ \E overflow_checks \in BOOLEAN : MarkFailedRetry(w, overflow_checks)
       \/ MarkFailedDeadLetter(w)

(* ------------------------------ heartbeat ------------------------------ *)

HeartbeatWhere_AnyStatus(row) == TRUE

(* WHERE id = $2 AND status = 'running' *)
HeartbeatWhere(row) == row.status = "running"

HeartbeatUpdate(row) ==
    [row EXCEPT !.lease_expires_at = now + default_lease_ms,
                !.updated_at = now]

Heartbeat(w, j) ==
    /\ tx[w].pc = "idle"
    /\ ~LockedByOther(j, w)
    /\ jobs' = IF j \in Rows /\ HeartbeatWhere(jobs[j])
               THEN [jobs EXCEPT ![j] = HeartbeatUpdate(@)] ELSE jobs
    /\ UNCHANGED <<now, lock, tx>>

(* ------------------------------ maintenance ---------------------------- *)

ReclaimWhere_AnyRunning(row) == row.status = "running"

(* WHERE status = 'running' AND lease_expires_at < NOW() *)
ReclaimWhere(row) == row.status = "running" /\ row.lease_expires_at < now

ReclaimUpdate_CountsAttempt(row) ==
    [row EXCEPT !.status = "pending", !.worker_id = NULL,
                !.lease_expires_at = NullTs, !.updated_at = now,
                !.attempt = row.attempt + 1]

ReclaimUpdate_DelaysRunAt(row) ==
    [row EXCEPT !.status = "pending", !.worker_id = NULL,
                !.lease_expires_at = NullTs, !.updated_at = now,
                !.run_at = now + TickMs]

ReclaimUpdate(row) ==
    [row EXCEPT !.status = "pending", !.worker_id = NULL,
                !.lease_expires_at = NullTs, !.updated_at = now]

ReclaimExpired(w) ==
    /\ tx[w].pc = "idle"
    /\ LET S == { j \in Rows : ReclaimWhere(jobs[j]) }
       IN  /\ \A j \in S : ~LockedByOther(j, w)
           /\ jobs' = [j \in Rows |->
                         IF j \in S THEN ReclaimUpdate(jobs[j]) ELSE jobs[j]]
    /\ UNCHANGED <<now, lock, tx>>

(* WHERE status = 'succeeded' AND updated_at < $1 *)
CleanupWhere(row, older_than) ==
    row.status = "succeeded" /\ row.updated_at < older_than

CleanupSucceeded(w, older_than) ==
    /\ tx[w].pc = "idle"
    /\ LET S == { j \in Rows : CleanupWhere(jobs[j], older_than) }
       IN  /\ \A j \in S : ~LockedByOther(j, w)
           /\ jobs' = [j \in Rows \ S |-> jobs[j]]
    /\ UNCHANGED <<now, lock, tx>>

(* COUNT of the rows FILTERed by WHERE status = ... *)
CountStatus(st) == Cardinality({ j \in Rows : jobs[j].status = st })

stats ==
    [ pending     |-> CountStatus("pending"),
      running     |-> CountStatus("running"),
      succeeded   |-> CountStatus("succeeded"),
      failed      |-> CountStatus("failed"),
      dead_letter |-> CountStatus("dead_letter") ]

(* ------------------------------ the clock ------------------------------ *)

Tick ==
    /\ now + TickMs <= MaxTicks * TickMs
    /\ now' = now + TickMs
    /\ UNCHANGED <<jobs, lock, tx>>

Next ==
    \/ /\ \E w \in Workers, limit \in 1..MaxLimit : ClaimReadyLock(w, limit)
       /\ UNCHANGED xvars
    \/ /\ \E w \in Workers : ClaimReadyReturn(w)
       /\ UNCHANGED xvars
    \/ /\ \E w \in Workers, j \in JobIds : MarkSucceeded(w, j)
       /\ UNCHANGED xvars
    \/ /\ \E w \in Workers, j \in JobIds, e \in Errors, k \in FailureKind :
            MarkFailedBegin(w, j, e, k)
       /\ UNCHANGED xvars
    \/ /\ \E w \in Workers : MarkFailedCommit(w)
       /\ UNCHANGED xvars
    \/ /\ \E w \in Workers, j \in JobIds : Heartbeat(w, j)
       /\ UNCHANGED xvars
    \/ /\ \E w \in Workers : ReclaimExpired(w)
       /\ UNCHANGED xvars
    \/ /\ \E w \in Workers : CleanupSucceeded(w, now)
       /\ UNCHANGED xvars
    \/ /\ Tick
       /\ UNCHANGED xvars

Spec == Init /\ [][Next]_vars

(* A table whose row is in the middle of its life: claimed for its         *)
(* attempt-th run after attempt - 1 retries, one retry left.               *)
BackoffAttempts == {1, 2, 11, 12, 62, 63, MaxAttemptB}

ClaimedJob(attempt, w) ==
    [ NewJob(attempt + 1, 0, 0) EXCEPT
        !.status = "running", !.attempt = attempt, !.worker_id = w,
        !.lease_expires_at = default_lease_ms,
        !.error_message = IF attempt > 1 THEN "boom" ELSE NULL,
        !.error_kind = IF attempt > 1 THEN "retryable" ELSE NULL ]

InitBackoff ==
    /\ \E a \in BackoffAttempts : jobs = [j \in {"j1"} |-> ClaimedJob(a, "w1")]
    /\ now = 0
    /\ lock = [j \in JobIds |-> NoTx]
    /\ tx = [w \in Workers |-> IdleTx]
    /\ DispatcherNew
    /\ BusNew
    /\ RoundTripNone

SpecBackoff == InitBackoff /\ [][Next]_vars

(* Two rows and the claim cycle: workers claim, and report on or renew    *)
(* only rows that carry their worker_id; rows are never retried            *)
(* (max_retries = 0).                                                      *)
InitPair ==
    /\ \E p \in 0..MaxPriority, r \in {0, TickMs} :
         jobs = [j \in JobIds |-> IF j = "j1" THEN NewJob(0, 0, 0)
                                               ELSE NewJob(0, p, r)]
    /\ now = 0
    /\ lock = [j \in JobIds |-> NoTx]
    /\ tx = [w \in Workers |-> IdleTx]
    /\ DispatcherNew
    /\ BusNew
    /\ RoundTripNone

NextPair ==
    \/ /\ \E w \in Workers, limit \in 1..MaxLimit : ClaimReadyLock(w, limit)
       /\ UNCHANGED xvars
    \/ /\ \E w \in Workers : ClaimReadyReturn(w)
       /\ UNCHANGED xvars
    \/ /\ \E w \in Workers, j \in JobIds :
            jobs[j].worker_id = w /\ MarkSucceeded(w, j)
       /\ UNCHANGED xvars
    \/ /\ \E w \in Workers, j \in JobIds, k \in FailureKind :
            jobs[j].worker_id = w /\ MarkFailedBegin(w, j, "boom", k)
       /\ UNCHANGED xvars
    \/ /\ \E w \in Workers : MarkFailedCommit(w)
       /\ UNCHANGED xvars
    \/ /\ \E w \in Workers, j \in JobIds :
            jobs[j].worker_id = w /\ Heartbeat(w, j)
       /\ UNCHANGED xvars
    \/ /\ \E w \in Workers : ReclaimExpired(w)
       /\ UNCHANGED xvars
    \/ /\ Tick
       /\ UNCHANGED xvars

SpecPair == InitPair /\ [][NextPair]_vars

(* Abandoned leases: workers claim jobs and then go silent (no report, no  *)
(* heartbeat); claim_ready and the maintenance sweep keep being called.    *)
RecoveryClaimStarts(w) ==
    /\ \E limit \in 1..MaxLimit : ClaimReadyLock(w, limit)
    /\ UNCHANGED xvars

RecoveryClaimReturns(w) ==
    /\ ClaimReadyReturn(w)
    /\ UNCHANGED xvars

RecoverySweep ==
    /\ \E w \in Workers : ReclaimExpired(w)
    /\ UNCHANGED xvars

NextRecovery ==
    \/ \E w \in Workers : RecoveryClaimStarts(w)
    \/ \E w \in Workers : RecoveryClaimReturns(w)
    \/ RecoverySweep
    \/ /\ Tick
       /\ UNCHANGED xvars

(* Every worker keeps polling, every statement that started completes, and *)
(* the sweep keeps being called: it is issued on a session that is idle,   *)
(* so it is taken whenever it can be taken again and again.                *)
SpecRecovery ==
    /\ InitPair
    /\ [][NextRecovery]_vars
    /\ \A w \in Workers : WF_vars(RecoveryClaimStarts(w))
    /\ \A w \in Workers : WF_vars(RecoveryClaimReturns(w))
    /\ SF_vars(RecoverySweep)

(* Attended jobs: every claim is followed by a report from the claiming   *)
(* worker and no lease is left to expire.  The table holds one fresh row,  *)
(* or a row that has been retried 62 times and is claimed for its 63rd     *)
(* attempt.  Time passes by waiting for a retried row to fall due.         *)
InitRetry ==
    /\ \/ \E m \in 0..MaxRetries : jobs = [j \in {"j1"} |-> NewJob(m, 0, 0)]
       \/ jobs = [j \in {"j1"} |-> ClaimedJob(63, "w1")]
    /\ now = 0
    /\ lock = [j \in JobIds |-> NoTx]
    /\ tx = [w \in Workers |-> IdleTx]
    /\ DispatcherNew
    /\ BusNew
    /\ RoundTripNone

(* run_at <= NOW() becomes true. *)
AwaitRunAt ==
    /\ \E j \in Rows :
         /\ jobs[j].status = "pending" /\ jobs[j].run_at > now
         /\ now' = jobs[j].run_at
    /\ UNCHANGED <<jobs, lock, tx>>

Holds(w, j) == j \in Rows /\ jobs[j].status = "running" /\ jobs[j].worker_id = w

RetryClaimStarts(w) ==
    /\ \E limit \in 1..MaxLimit : ClaimReadyLock(w, limit)
    /\ UNCHANGED xvars

RetryClaimReturns(w) ==
    /\ ClaimReadyReturn(w)
    /\ UNCHANGED xvars

(* The claiming worker's report: the effect succeeded or failed. *)
RetryReports(w) ==
    /\ \E j \in JobIds :
         /\ Holds(w, j)
         /\ \/ MarkSucceeded(w, j)
            \/ \E e \in Errors, k \in FailureKind : MarkFailedBegin(w, j, e, k)
    /\ UNCHANGED xvars

RetryFailCommits(w) ==
    /\ MarkFailedCommit(w)
    /\ UNCHANGED xvars

RetryAwaits ==
    /\ AwaitRunAt
    /\ UNCHANGED xvars

NextRetry ==
    \/ \E w \in Workers : RetryClaimStarts(w)
    \/ \E w \in Workers : RetryClaimReturns(w)
    \/ \E w \in Workers : RetryReports(w)
    \/ \E w \in Workers : RetryFailCommits(w)
    \/ RetryAwaits

(* Every worker keeps polling, the holder of a job keeps reporting, every  *)
(* statement that started completes (a mark_failed transaction, which can  *)
(* always finish, is over again and again), and time reaches a retried     *)
(* row's run_at.                                                           *)
SpecRetry ==
    /\ InitRetry
    /\ [][NextRetry]_vars
    /\ \A w \in Workers : WF_vars(RetryClaimStarts(w))
    /\ \A w \in Workers : WF_vars(RetryClaimReturns(w))
    /\ \A w \in Workers : SF_vars(RetryReports(w))
    /\ \A w \in Workers : []<>(tx[w].pc # "fail")
    /\ WF_vars(RetryAwaits)

(* ------------------------------ commands ------------------------------- *)

(* Option: None is the empty set, Some(v) the singleton. *)
None == {}

Some(v) == {v}

Uuids == {1, 2}

(* run_at = Utc::now() + chrono::Duration::hours(1), or an hour later. *)
HourMs == 3600000

RunAts == {HourMs, 2 * HourMs}

AutoSerializeBackgroundCommand ==
    { [name |-> "AutoSerializeBackgroundCommand", task |-> t, user_id |-> u] :
        t \in {"send_email", "process"}, u \in Uuids }

AutoSerializeScheduledCommand ==
    { [name |-> "AutoSerializeScheduledCommand",
       reminder |-> "Meeting in 1 hour", run_at |-> r] : r \in RunAts }

AutoSerializeInlineCommand ==
    { [name |-> "AutoSerializeInlineCommand", action |-> "log"] }

FetchCommand ==
    { [name |-> "FetchCommand", fetch_id |-> u, url |-> "https://example.com"] :
        u \in Uuids }

(* Commands that break the rule for queued commands: a Background command  *)
(* whose job_spec is the default None, a Background command whose          *)
(* serialize_to_json is the default None, and a Scheduled command that     *)
(* uses auto_serialize!() on a value serde_json cannot represent.  Each    *)
(* record carries what its Command impl returns.                           *)
UnqueueableCommand ==
    { [name |-> "SpecLessCommand", mode |-> [kind |-> "Background"],
       spec |-> None, serde |-> "auto"],
      [name |-> "PayloadLessCommand", mode |-> [kind |-> "Background"],
       spec |-> Some([job_type |-> "x:y"]), serde |-> "default"] }
    \cup { [name |-> "UnserializableCommand",
            mode |-> [kind |-> "Scheduled", run_at |-> r],
            spec |-> Some([job_type |-> "x:y"]), serde |-> "auto"] :
             r \in RunAts }

UnqueueableNames ==
    {"SpecLessCommand", "PayloadLessCommand", "UnserializableCommand"}

execution_mode_ScheduledAsBackground(cmd) ==
    CASE cmd.name = "AutoSerializeBackgroundCommand" -> [kind |-> "Background"]
      [] cmd.name = "AutoSerializeScheduledCommand" -> [kind |-> "Background"]
      [] OTHER -> [kind |-> "Inline"]

execution_mode_DefaultBackground(cmd) ==
    CASE cmd.name = "AutoSerializeBackgroundCommand" -> [kind |-> "Background"]
      [] cmd.name = "AutoSerializeScheduledCommand" ->
           [kind |-> "Scheduled", run_at |-> cmd.run_at]
      [] OTHER -> [kind |-> "Background"]

(* fn execution_mode(&self): the two overrides; a Command impl without one *)
(* (impl Command for AutoSerializeInlineCommand {}, for FetchCommand {})   *)
(* is Inline.                                                              *)
execution_mode(cmd) ==
    CASE cmd.name = "AutoSerializeBackgroundCommand" -> [kind |-> "Background"]
      [] cmd.name = "AutoSerializeScheduledCommand" ->
           [kind |-> "Scheduled", run_at |-> cmd.run_at]
      [] OTHER -> [kind |-> "Inline"]

(* fn job_spec(&self) -> Option<JobSpec> *)
job_spec(cmd) ==
    CASE cmd.name = "AutoSerializeBackgroundCommand" ->
           Some([job_type |-> "auto:background"])
      [] cmd.name = "AutoSerializeScheduledCommand" ->
           Some([job_type |-> "auto:scheduled"])
      [] OTHER -> None

to_value_SecondsPrecision(cmd) ==
    CASE cmd.name = "AutoSerializeBackgroundCommand" ->
           [ok |-> TRUE,
            val |-> [task |-> cmd.task, user_id |-> ToString(cmd.user_id)]]
      [] cmd.name = "AutoSerializeScheduledCommand" ->
           [ok |-> TRUE,
            val |-> [reminder |-> cmd.reminder,
                     run_at |-> ToString((cmd.run_at \div 1000) * 1000)]]
      [] cmd.name = "AutoSerializeInlineCommand" ->
           [ok |-> TRUE, val |-> [action |-> cmd.action]]
      [] OTHER -> [ok |-> FALSE]

(* serde_json::to_value of a #[derive(Serialize)] struct: an object with   *)
(* one member per field, the Uuid and the DateTime as strings; an Err for  *)
(* a value that has no JSON form.                                          *)
to_value(cmd) ==
    CASE cmd.name = "AutoSerializeBackgroundCommand" ->
           [ok |-> TRUE,
            val |-> [task |-> cmd.task, user_id |-> ToString(cmd.user_id)]]
      [] cmd.name = "AutoSerializeScheduledCommand" ->
           [ok |-> TRUE,
            val |-> [reminder |-> cmd.reminder, run_at |-> ToString(cmd.run_at)]]
      [] cmd.name = "AutoSerializeInlineCommand" ->
           [ok |-> TRUE, val |-> [action |-> cmd.action]]
      [] OTHER -> [ok |-> FALSE]

serialize_to_json_NullOnError(cmd) ==
    IF to_value(cmd).ok THEN Some(to_value(cmd).val) ELSE Some([null |-> TRUE])

(* auto_serialize!(): serde_json::to_value(self).ok() *)
serialize_to_json(cmd) ==
    IF to_value(cmd).ok THEN Some(to_value(cmd).val) ELSE None

(* The type-erased command the dispatcher receives (AnyCommand). *)
get_execution_mode(cmd) ==
    IF cmd.name \in UnqueueableNames THEN cmd.mode ELSE execution_mode(cmd)

get_job_spec(cmd) ==
    IF cmd.name \in UnqueueableNames THEN cmd.spec ELSE job_spec(cmd)

get_serialized(cmd) ==
    CASE cmd.name \in UnqueueableNames ->
           IF cmd.serde = "auto" THEN serialize_to_json(cmd) ELSE None
      [] cmd.name \in {"AutoSerializeBackgroundCommand",
                       "AutoSerializeScheduledCommand"} -> serialize_to_json(cmd)
      [] OTHER -> None

(* FetchEffect::execute: Fetched on a success status, FetchFailed on any   *)
(* other status or on a transport error.                                   *)
execute(cmd) ==
    IF cmd.name = "FetchCommand"
    THEN { [type |-> "Fetched", fetch_id |-> cmd.fetch_id, url |-> cmd.url,
            content |-> "body", status |-> 200],
           [type |-> "FetchFailed", fetch_id |-> cmd.fetch_id, url |-> cmd.url,
            reason |-> "HTTP 404"],
           [type |-> "FetchFailed", fetch_id |-> cmd.fetch_id, url |-> cmd.url,
            reason |-> "connection refused"] }
    ELSE {}

(* ------------------------------ job queue ------------------------------ *)

(* TestJobQueue::enqueue: push (spec.job_type, payload). *)
enqueue(payload, spec) == Append(enqueued, <<spec.job_type, payload>>)

(* TestJobQueue::schedule: push (spec.job_type, payload, run_at). *)
schedule(payload, spec, run_at) ==
    Append(scheduled, <<spec.job_type, payload, run_at>>)

(* The id the queue returns (Uuid::new_v4()): one not returned before. *)
new_job_id == Len(enqueued) + Len(scheduled) + 1

(* ------------------------------ dispatcher ----------------------------- *)

(* The commands handed to dispatch_one: those with an effect registered    *)
(* and those routed to the queue.                                          *)
DispatchedCommands ==
    AutoSerializeBackgroundCommand \cup AutoSerializeScheduledCommand
      \cup FetchCommand \cup UnqueueableCommand

(* Inline: the effect runs in the call and its event is emitted. *)
DispatchInline(cmd) ==
    /\ get_execution_mode(cmd).kind = "Inline"
    /\ \E ev \in execute(cmd) : bus' = Append(bus, ev)
    /\ results' = Append(results, "Ok")
    /\ UNCHANGED <<enqueued, scheduled>>

(* Serialization failure or missing JobSpec of a queued command. *)
DispatchErrorCause(cmd) ==
    IF get_serialized(cmd) = None THEN {"SerializationFailed"}
    ELSE IF get_job_spec(cmd) = None THEN {"MissingJobSpec"}
    ELSE {}

(* Background: job_store.enqueue(payload, spec), then JobEnqueued(job_id). *)
DispatchBackground(cmd) ==
    /\ get_execution_mode(cmd).kind = "Background"
    /\ DispatchErrorCause(cmd) = {}
    /\ \E payload \in get_serialized(cmd), spec \in get_job_spec(cmd) :
         enqueued' = enqueue(payload, spec)
    /\ bus' = Append(bus, [type |-> "JobEnqueued", job_id |-> new_job_id])
    /\ results' = Append(results, "Ok")
    /\ UNCHANGED scheduled

(* Scheduled{run_at}: job_store.schedule(payload, spec, run_at). *)
DispatchScheduled(cmd) ==
    /\ get_execution_mode(cmd).kind = "Scheduled"
    /\ DispatchErrorCause(cmd) = {}
    /\ \E payload \in get_serialized(cmd), spec \in get_job_spec(cmd) :
         scheduled' = schedule(payload, spec, get_execution_mode(cmd).run_at)
    /\ results' = Append(results, "Ok")
    /\ UNCHANGED <<enqueued, bus>>

(* DispatchError: a CommandFailed event is emitted, nothing is queued. *)
DispatchFailed(cmd) ==
    /\ get_execution_mode(cmd).kind # "Inline"
    /\ \E cause \in DispatchErrorCause(cmd) :
         bus' = Append(bus, [type |-> "CommandFailed", cause |-> cause])
    /\ results' = Append(results, "DispatchError")
    /\ UNCHANGED <<enqueued, scheduled>>

(* dispatcher.dispatch_one(cmd) *)
DispatchOne(cmd) ==
    /\ Len(results) < MaxDispatch
    /\ UNCHANGED <<svars, bvars, rt>>
    /\ \/ DispatchInline(cmd)
       \/ DispatchBackground(cmd)
       \/ DispatchScheduled(cmd)
       \/ DispatchFailed(cmd)

(* A dispatcher over a TestJobQueue and a new bus; the store is not used.  *)
InitDispatch ==
    /\ jobs = [j \in {} |-> NewJob(0, 0, 0)]
    /\ now = 0
    /\ lock = [j \in JobIds |-> NoTx]
    /\ tx = [w \in Workers |-> IdleTx]
    /\ DispatcherNew
    /\ BusNew
    /\ RoundTripNone

NextDispatch == \E cmd \in DispatchedCommands : DispatchOne(cmd)

SpecDispatch == InitDispatch /\ [][NextDispatch]_vars

(* ------------------------------ event bus ------------------------------ *)

(* Events a receiver's buffer retains. *)
BusCapacity == 2

(* enum FetchEvent, as emitted by the edge and returned by the effect. *)
FetchEvent ==
    { [type |-> "FetchRequested", fetch_id |-> 1, url |-> "https://example.com"],
      [type |-> "FetchFailed", fetch_id |-> 1, url |-> "https://example.com",
       reason |-> "HTTP 404"] }

(* Index in the emit log of the oldest event a buffer still retains. *)
Oldest == IF Len(bus) > BusCapacity THEN Len(bus) - BusCapacity + 1 ELSE 1

(* The receiver has fallen behind what its buffer retains. *)
Lagging(s) == subs[s].state = "live" /\ subs[s].next < Oldest

(* What the next recv() of s yields: the event at its cursor, or, once    *)
(* lagged, the number of events it will not see.                         *)
RecvItem(s) ==
    IF subs[s].next < Oldest
    THEN [type |-> "Lagged", n |-> Len(bus) - subs[s].next]
    ELSE [type |-> "Event", event |-> bus[subs[s].next], at |-> subs[s].next]

(* The cursor after that recv(): past the event, or at the newest one.    *)
RecvNext(s) ==
    IF subs[s].next < Oldest THEN Len(bus) ELSE subs[s].next + 1

Received(s) ==
    [subs[s] EXCEPT !.next = RecvNext(s), !.seen = Append(@, RecvItem(s))]

Emit_WaitsForRoom(ev) ==
    /\ Len(bus) < MaxEmit
    /\ \A s \in Subscribers :
         subs[s].state = "live" => Len(bus) + 1 - subs[s].next < BusCapacity
    /\ bus' = Append(bus, ev)
    /\ subs' = [s \in Subscribers |->
                 IF subs[s].state = "dropped"
                 THEN [subs[s] EXCEPT !.state = "pruned"] ELSE subs[s]]
    /\ UNCHANGED <<svars, enqueued, scheduled, results, mach, rt>>

(* EventBus::emit: appends to the log every live receiver reads from and  *)
(* prunes the receivers that have disappeared; it waits for no receiver.  *)
Emit(ev) ==
    /\ Len(bus) < MaxEmit
    /\ bus' = Append(bus, ev)
    /\ subs' = [s \in Subscribers |->
                 IF subs[s].state = "dropped"
                 THEN [subs[s] EXCEPT !.state = "pruned"] ELSE subs[s]]
    /\ UNCHANGED <<svars, enqueued, scheduled, results, mach, rt>>

Subscribe_FromOldest(s) ==
    /\ subs[s].state = "none"
    /\ subs' = [subs EXCEPT ![s] = [state |-> "live", since |-> Len(bus),
                                    next |-> Oldest, seen |-> << >>]]
    /\ UNCHANGED <<svars, dvars, mach, rt>>

(* EventBus::subscribe: a receiver whose cursor is past every event       *)
(* emitted so far.                                                        *)
Subscribe(s) ==
    /\ subs[s].state = "none"
    /\ subs' = [subs EXCEPT ![s] = [state |-> "live", since |-> Len(bus),
                                    next |-> Len(bus) + 1, seen |-> << >>]]
    /\ UNCHANGED <<svars, dvars, mach, rt>>

(* receiver.recv() by a task other than the runtime loop. *)
Recv(s) ==
    /\ subs[s].state = "live"
    /\ subs[s].next <= Len(bus)
    /\ subs' = [subs EXCEPT ![s] = Received(s)]
    /\ UNCHANGED <<svars, dvars, mach, rt>>

(* The task holding the receiver drops it. *)
DropReceiver(s) ==
    /\ subs[s].state = "live"
    /\ subs' = [subs EXCEPT ![s].state = "dropped"]
    /\ UNCHANGED <<svars, dvars, mach, rt>>

(* ------------------------------ runtime -------------------------------- *)

(* FetchMachine::decide *)
decide(event) ==
    IF event.type = "FetchRequested"
    THEN Some([name |-> "FetchCommand", fetch_id |-> event.fetch_id,
               url |-> event.url])
    ELSE None

RuntimeRecv_SpawnsDecide ==
    /\ subs["runtime"].state = "live"
    /\ subs["runtime"].next <= Len(bus)
    /\ subs' = [subs EXCEPT !["runtime"] = Received("runtime")]
    /\ mach' = IF RecvItem("runtime").type = "Event"
               THEN [mach EXCEPT !.pc = "deciding",
                                 !.active = @ + 1,
                                 !.event = Some(RecvItem("runtime").event),
                                 !.decided = Append(@, RecvItem("runtime").at)]
               ELSE mach
    /\ UNCHANGED <<svars, dvars, rt>>

(* Runtime::run: the loop takes the next item of its receiver only when   *)
(* the machine is not deciding, and calls decide on an event.             *)
RuntimeRecv ==
    /\ mach.pc = "idle"
    /\ subs["runtime"].state = "live"
    /\ subs["runtime"].next <= Len(bus)
    /\ subs' = [subs EXCEPT !["runtime"] = Received("runtime")]
    /\ mach' = IF RecvItem("runtime").type = "Event"
               THEN [mach EXCEPT !.pc = "deciding",
                                 !.active = @ + 1,
                                 !.event = Some(RecvItem("runtime").event),
                                 !.decided = Append(@, RecvItem("runtime").at)]
               ELSE mach
    /\ UNCHANGED <<svars, dvars, rt>>

(* decide returns inside the loop's task; its command goes to dispatch.   *)
DecideReturn ==
    /\ mach.pc = "deciding"
    /\ \E event \in mach.event :
         mach' = [mach EXCEPT !.pc = "idle",
                              !.active = @ - 1,
                              !.event = None,
                              !.commands = Append(@, decide(event))]
    /\ UNCHANGED <<svars, dvars, subs, rt>>

InitBus ==
    /\ jobs = [j \in {} |-> NewJob(0, 0, 0)]
    /\ now = 0
    /\ lock = [j \in JobIds |-> NoTx]
    /\ tx = [w \in Workers |-> IdleTx]
    /\ DispatcherNew
    /\ BusNew
    /\ RoundTripNone

NextBus ==
    \/ \E ev \in FetchEvent : Emit(ev)
    \/ \E s \in Subscribers : Subscribe(s)
    \/ \E s \in Taps : Recv(s)
    \/ \E s \in Taps : DropReceiver(s)
    \/ RuntimeRecv
    \/ DecideReturn

SpecBus == InitBus /\ [][NextBus]_vars

(* ------------------------------ round trip ----------------------------- *)

(* The commands a round trip is run on: the two structs that serialize     *)
(* through auto_serialize!(), over strings, ids and instants that include  *)
(* the empty string and instants with a sub-second part.                   *)
RoundTripUuids == 1..MaxUuid

RoundTripRunAts == {0, 1, 999, HourMs, HourMs + 1}

RoundTripCommands ==
    { [name |-> "AutoSerializeBackgroundCommand", task |-> t, user_id |-> u] :
        t \in {"process", "send_email", "", "a b", "null"},
        u \in RoundTripUuids }
    \cup
    { [name |-> "AutoSerializeScheduledCommand", reminder |-> m, run_at |-> r] :
        m \in {"Meeting in 1 hour", ""}, r \in RoundTripRunAts }

(* Uuid's Deserialize: the id whose text is s, an error for any other text. *)
parse_uuid(s) ==
    IF \E u \in RoundTripUuids : ToString(u) = s
    THEN Some(CHOOSE u \in RoundTripUuids : ToString(u) = s)
    ELSE None

(* DateTime<Utc>'s Deserialize: the instant whose text is s. *)
parse_datetime(s) ==
    IF \E r \in RoundTripRunAts : ToString(r) = s
    THEN Some(CHOOSE r \in RoundTripRunAts : ToString(r) = s)
    ELSE None

(* serde_json::from_value::<T> of a #[derive(Deserialize)] struct: every   *)
(* field read from the member of its name; None stands for the Err.        *)
from_value(name, val) ==
    CASE name = "AutoSerializeBackgroundCommand" ->
           { [name |-> name, task |-> val.task, user_id |-> u] :
               u \in parse_uuid(val.user_id) }
      [] name = "AutoSerializeScheduledCommand" ->
           { [name |-> name, reminder |-> val.reminder, run_at |-> r] :
               r \in parse_datetime(val.run_at) }
      [] OTHER -> None

(* let json = serde_json::to_value(&original) by way of serialize_to_json. *)
RoundTripSerialize ==
    /\ rt.original # {}
    /\ rt.json = {}
    /\ \E cmd \in rt.original :
         /\ serialize_to_json(cmd) # None
         /\ rt' = [rt EXCEPT !.json = serialize_to_json(cmd)]
    /\ UNCHANGED <<svars, dvars, bvars>>

(* let deserialized: T = serde_json::from_value(json) *)
RoundTripDeserialize ==
    /\ rt.json # {}
    /\ rt.back = {}
    /\ \E cmd \in rt.original, val \in rt.json :
         /\ from_value(cmd.name, val) # None
         /\ rt' = [rt EXCEPT !.back = from_value(cmd.name, val)]
    /\ UNCHANGED <<svars, dvars, bvars>>

InitRoundTrip ==
    /\ jobs = [j \in {} |-> NewJob(0, 0, 0)]
    /\ now = 0
    /\ lock = [j \in JobIds |-> NoTx]
    /\ tx = [w \in Workers |-> IdleTx]
    /\ DispatcherNew
    /\ BusNew
    /\ \E cmd \in RoundTripCommands :
         rt = [original |-> Some(cmd), json |-> None, back |-> None]

NextRoundTrip == RoundTripSerialize \/ RoundTripDeserialize

SpecRoundTrip == InitRoundTrip /\ [][NextRoundTrip]_vars

(* ------------------------------ properties ----------------------------- *)

Terminal == {"succeeded", "dead_letter"}

(* A step that completes mark_succeeded(j) / mark_failed(j, ...). *)
MarkSucceededStep(j) == \E w \in Workers : MarkSucceeded(w, j)

MarkFailedStep(w, j) ==
    tx[w].pc = "fail" /\ tx[w].job = j /\ j \in Rows /\ MarkFailedCommit(w)

(* A step that completes claim_ready and returns j to w. *)
ClaimReturns(w, j) == ClaimReadyReturn(w) /\ j \in tx[w].sel

(* min(2^attempt, 3600) seconds as the specification states it: 2^12 is    *)
(* the first power above 3600.                                             *)
SpecBackoffSecs(attempt) == IF attempt < 12 THEN 2 ^ attempt ELSE 3600

(* C1: claim exclusivity.  Every id a claim_ready call returns was pending *)
(* until that call made it running for the caller, and is in the result of *)
(* no other claim_ready call in flight at the same time.                   *)
ClaimExclusivity ==
    [][\A w \in Workers, j \in JobIds :
         ClaimReturns(w, j) =>
           /\ j \in Rows /\ jobs[j].status = "pending"
           /\ jobs'[j].status = "running" /\ jobs'[j].worker_id = w
           /\ \A v \in Workers \ {w} : j \notin tx[v].sel]_vars

(* Two claim_ready calls overlapped: one returned j1, the other passed    *)
(* over the locked j1 and holds j2.                                        *)
ClaimExclusivityWitness ==
    /\ JobIds \subseteq Rows
    /\ jobs["j1"].status = "running" /\ jobs["j1"].worker_id = "w1"
    /\ jobs["j1"].lease_expires_at = default_lease_ms
    /\ jobs["j2"].status = "pending"
    /\ tx["w2"].pc = "claim" /\ tx["w2"].sel = {"j2"}
    /\ tx["w2"].lease = default_lease_ms

(* C2: terminal stability.  A mark_succeeded or mark_failed call on a job  *)
(* that is succeeded or dead_letter leaves its status unchanged.           *)
TerminalStability ==
    [][\A j \in Rows :
         /\ jobs[j].status \in Terminal
         /\ MarkSucceededStep(j) \/ \E w \in Workers : MarkFailedStep(w, j)
         => jobs'[j].status = jobs[j].status]_vars

(* C3: lease invariant.  status = running iff worker_id is non-null iff    *)
(* lease_expires_at is non-null.                                           *)
LeaseInvariant ==
    \A j \in Rows :
      /\ (jobs[j].status = "running") <=> (jobs[j].worker_id # NULL)
      /\ (jobs[j].worker_id # NULL) <=> (jobs[j].lease_expires_at # NullTs)

(* C4: a job that becomes dead_letter was running immediately before.      *)
NoPendingToDeadLetter ==
    [][\A j \in Rows \cap DOMAIN jobs' :
         jobs'[j].status = "dead_letter" /\ jobs[j].status # "dead_letter"
         => jobs[j].status = "running"]_vars

(* C5: a job becomes running only by a claim_ready call that returns it,   *)
(* and claim_ready sets running only on a job that is pending.             *)
RunningOnlyByClaim ==
    [][/\ \A j \in Rows \cap DOMAIN jobs' :
            jobs'[j].status = "running" /\ jobs[j].status # "running"
            => /\ jobs[j].status = "pending"
               /\ \E w \in Workers : ClaimReturns(w, j)
       /\ \A w \in Workers, j \in Rows :
            ClaimReturns(w, j) => jobs[j].status = "pending"]_vars

(* A job that was retried has been claimed again.                          *)
RunningOnlyByClaimWitness ==
    /\ "j1" \in Rows
    /\ jobs["j1"].status = "running" /\ jobs["j1"].attempt = 2
    /\ jobs["j1"].worker_id = "w2"

(* C6: the retry step.  mark_failed(Retryable) on a job with               *)
(* attempt < max_retries makes it pending with attempt + 1, run_at = now + *)
(* backoff, no worker, no lease, the error recorded as retryable.          *)
RetryStep ==
    [][\A w \in Workers, j \in Rows :
         /\ MarkFailedStep(w, j)
         /\ tx[w].kind = "Retryable"
         /\ jobs[j].attempt < jobs[j].max_retries
         => /\ jobs'[j].status = "pending"
            /\ jobs'[j].attempt = jobs[j].attempt + 1
            /\ jobs'[j].run_at = now + SpecBackoffSecs(jobs[j].attempt) * 1000
            /\ jobs'[j].worker_id = NULL
            /\ jobs'[j].lease_expires_at = NullTs
            /\ jobs'[j].error_message = tx[w].error
            /\ jobs'[j].error_kind = "retryable"]_vars

(* C7: dead-lettering.  mark_failed(NonRetryable), or mark_failed with     *)
(* attempt >= max_retries, makes the job dead_letter, keeps attempt and    *)
(* run_at, and records the error message and the kind passed.              *)
DeadLettering ==
    [][\A w \in Workers, j \in Rows :
         /\ MarkFailedStep(w, j)
         /\ tx[w].kind = "NonRetryable" \/ jobs[j].attempt >= jobs[j].max_retries
         => /\ jobs'[j].status = "dead_letter"
            /\ jobs'[j].attempt = jobs[j].attempt
            /\ jobs'[j].run_at = jobs[j].run_at
            /\ jobs'[j].error_message = tx[w].error
            /\ jobs'[j].error_kind =
                 (IF tx[w].kind = "Retryable" THEN "retryable"
                  ELSE "non_retryable")]_vars

(* Retries exhausted: a retried job failed again with a retryable error.   *)
DeadLetteringWitness ==
    /\ "j1" \in Rows
    /\ jobs["j1"].status = "dead_letter"
    /\ jobs["j1"].attempt = 2 /\ jobs["j1"].max_retries = 2
    /\ jobs["j1"].error_kind = "retryable"
    /\ jobs["j1"].error_message = "still broken"

(* C8: mark_failed dead-lettering a running job clears its worker_id.      *)
DeadLetterClearsWorker ==
    [][\A w \in Workers, j \in Rows :
         /\ MarkFailedStep(w, j)
         /\ jobs[j].status = "running"
         /\ jobs'[j].status = "dead_letter"
         => jobs'[j].worker_id = NULL]_vars

RetryOf(j) ==
    \E w \in Workers :
      /\ MarkFailedStep(w, j)
      /\ tx[w].kind = "Retryable"
      /\ jobs[j].attempt < jobs[j].max_retries
      /\ jobs' # jobs

(* C10: retry monotonicity.  attempt never decreases, grows by exactly 1   *)
(* on a retry and on nothing else, and never exceeds max_retries + 1.      *)
RetryMonotonicity ==
    /\ [](\A j \in Rows : jobs[j].attempt <= jobs[j].max_retries + 1)
    /\ [][\A j \in Rows \cap DOMAIN jobs' :
            /\ jobs'[j].attempt >= jobs[j].attempt
            /\ RetryOf(j) => jobs'[j].attempt = jobs[j].attempt + 1
            /\ jobs'[j].attempt # jobs[j].attempt => RetryOf(j)]_vars

(* A job was retried once, one tick in: it waits out a 2 s backoff.        *)
RetryMonotonicityWitness ==
    /\ "j1" \in Rows
    /\ jobs["j1"].attempt = 2 /\ jobs["j1"].status = "pending"
    /\ jobs["j1"].error_kind = "retryable"
    /\ now = TickMs /\ jobs["j1"].run_at = now + 2000

(* C11: reclaim.  reclaim_expired makes exactly the running rows whose     *)
(* lease_expires_at < now pending with no worker and no lease, affects     *)
(* that many rows, keeps their attempt and run_at, and leaves every other  *)
(* row as it was.                                                          *)
ReclaimResets ==
    [][\A w \in Workers :
         ReclaimExpired(w) =>
           LET expired == { j \in Rows : /\ jobs[j].status = "running"
                                         /\ jobs[j].lease_expires_at < now }
               changed == { j \in Rows : jobs'[j] # jobs[j] }
           IN  /\ DOMAIN jobs' = Rows
               /\ Cardinality(changed) = Cardinality(expired)
               /\ \A j \in expired :
                    /\ jobs'[j].status = "pending"
                    /\ jobs'[j].worker_id = NULL
                    /\ jobs'[j].lease_expires_at = NullTs
                    /\ jobs'[j].attempt = jobs[j].attempt
                    /\ jobs'[j].run_at = jobs[j].run_at
               /\ \A j \in Rows \ expired : jobs'[j] = jobs[j]]_vars

(* j1's lease lapsed and it was reclaimed (rows are never retried here, so *)
(* only reclaim writes a pending row) while j2 runs under a live lease.    *)
ReclaimResetsWitness ==
    /\ JobIds \subseteq Rows
    /\ jobs["j1"].status = "pending" /\ jobs["j1"].updated_at = now
    /\ jobs["j1"].worker_id = NULL /\ jobs["j1"].lease_expires_at = NullTs
    /\ now > default_lease_ms
    /\ jobs["j2"].status = "running" /\ jobs["j2"].lease_expires_at >= now

(* C12: heartbeat.  heartbeat(j) on a running job sets lease_expires_at to *)
(* now + lease_ms; on a job in any other status it changes nothing of      *)
(* status, worker_id, lease_expires_at and attempt.                        *)
HeartbeatExtends ==
    [][\A w \in Workers, j \in Rows :
         Heartbeat(w, j) =>
           /\ DOMAIN jobs' = Rows
           /\ jobs'[j].status = jobs[j].status
           /\ jobs'[j].worker_id = jobs[j].worker_id
           /\ jobs'[j].attempt = jobs[j].attempt
           /\ jobs'[j].lease_expires_at =
                (IF jobs[j].status = "running" THEN now + default_lease_ms
                 ELSE jobs[j].lease_expires_at)]_vars

(* The row claimed at time 0 for its 62nd attempt still runs for w1 with a *)
(* lease that ends one lease after the first tick: only a heartbeat at     *)
(* that tick writes it (the lease had not lapsed, so it was not reclaimed).*)
HeartbeatExtendsWitness ==
    /\ "j1" \in Rows
    /\ jobs["j1"].status = "running" /\ jobs["j1"].worker_id = "w1"
    /\ jobs["j1"].attempt = 62
    /\ jobs["j1"].lease_expires_at = TickMs + default_lease_ms
    /\ jobs["j1"].updated_at = TickMs

(* The rows a claim finds due: pending with run_at not after now. *)
Due == { j \in Rows : jobs[j].status = "pending" /\ jobs[j].run_at <= now }

Smaller(a, b) == IF a < b THEN a ELSE b

(* C13: claim eligibility.  claim_ready(worker_id, limit) selects at most  *)
(* limit rows, each pending with run_at <= now, and computes the lease as  *)
(* now + lease_ms; every row it returns is running for the caller with     *)
(* that lease; no row starts running before its run_at.                    *)
ClaimEligibility ==
    [][/\ \A w \in Workers, limit \in 1..MaxLimit :
            ClaimReadyLock(w, limit) =>
              /\ Cardinality(tx'[w].sel) <= limit
              /\ tx'[w].sel \subseteq Due
              /\ tx'[w].lease = now + default_lease_ms
       /\ \A w \in Workers :
            ClaimReadyReturn(w) =>
              \A j \in tx[w].sel :
                 /\ jobs[j].run_at <= now
                 /\ jobs'[j].status = "running"
                 /\ jobs'[j].worker_id = w
                 /\ jobs'[j].lease_expires_at = tx[w].lease
       /\ \A j \in Rows :
            jobs[j].status # "running" /\ jobs'[j].status = "running"
              => jobs[j].run_at <= now]_vars

(* The scheduled row j2 was claimed at the very tick it fell due. *)
ClaimEligibilityWitness ==
    /\ JobIds \subseteq Rows
    /\ jobs["j2"].run_at = TickMs
    /\ jobs["j2"].status = "running" /\ jobs["j2"].worker_id \in Workers
    /\ jobs["j2"].lease_expires_at = TickMs + default_lease_ms

(* C14: claim ordering.  With no row lock held by any transaction, the     *)
(* rows claim_ready selects are the first `limit` due rows by priority     *)
(* ascending, then run_at ascending.                                       *)
ClaimOrdering ==
    [][\A w \in Workers, limit \in 1..MaxLimit :
         ClaimReadyLock(w, limit) /\ (\A j \in JobIds : lock[j] = NoTx) =>
           LET S == tx'[w].sel
           IN  /\ S \subseteq Due
               /\ Cardinality(S) = Smaller(limit, Cardinality(Due))
               /\ \A a \in S, b \in Due \ S :
                    ~ \/ jobs[b].priority < jobs[a].priority
                      \/ /\ jobs[b].priority = jobs[a].priority
                         /\ jobs[b].run_at < jobs[a].run_at]_vars

(* A call with limit 1 took j1 and left the due, unlocked row j2 of lower  *)
(* priority (a larger number) behind.                                      *)
ClaimOrderingWitness ==
    /\ JobIds \subseteq Rows
    /\ tx["w1"].pc = "claim" /\ tx["w1"].sel = {"j1"}
    /\ tx["w2"].pc = "idle" /\ lock["j2"] = NoTx
    /\ jobs["j2"].status = "pending" /\ jobs["j2"].run_at = 0
    /\ jobs["j2"].priority > jobs["j1"].priority

(* C15: no head-of-line blocking.  A claim_ready call can always start,    *)
(* whatever row locks other transactions hold; it selects none of the rows *)
(* they lock and as many of the other due rows as its limit allows.        *)
NoHeadOfLineBlocking ==
    /\ [](\A w \in Workers :
            tx[w].pc = "idle" =>
              ENABLED (\E limit \in 1..MaxLimit : ClaimReadyLock(w, limit)))
    /\ [][\A w \in Workers, limit \in 1..MaxLimit :
            ClaimReadyLock(w, limit) =>
              LET free == { j \in Due : ~LockedByOther(j, w) }
              IN  /\ tx'[w].sel \subseteq free
                  /\ Cardinality(tx'[w].sel)
                       = Smaller(limit, Cardinality(free))]_vars

(* While w1's call holds the lock on j1, w2's call has passed over j1 and  *)
(* selected j2, which sorts after it.                                      *)
NoHeadOfLineBlockingWitness ==
    /\ JobIds \subseteq Rows
    /\ tx["w1"].pc = "claim" /\ tx["w1"].sel = {"j1"} /\ lock["j1"] = "w1"
    /\ tx["w2"].pc = "claim" /\ tx["w2"].sel = {"j2"} /\ lock["j2"] = "w2"
    /\ jobs["j1"].status = "pending" /\ jobs["j2"].status = "pending"
    /\ jobs["j2"].priority > jobs["j1"].priority

(* C16: concurrent claim completeness.  When a call whose limit is at      *)
(* least the number of due rows starts, every due row is in the selection  *)
(* of some call in flight; selections of calls in flight are disjoint and  *)
(* stay pending and locked until their call returns them, running for the  *)
(* caller.  So the calls together return every due row, each to one caller.*)
ClaimCompleteness ==
    /\ [][\A w \in Workers, limit \in 1..MaxLimit :
            ClaimReadyLock(w, limit) /\ limit >= Cardinality(Due) =>
              \A j \in Due :
                 \E v \in Workers : tx'[v].pc = "claim" /\ j \in tx'[v].sel]_vars
    /\ [](\A v \in Workers :
            tx[v].pc = "claim" =>
              /\ \A j \in tx[v].sel :
                   j \in Rows /\ jobs[j].status = "pending" /\ lock[j] = v
              /\ \A u \in Workers \ {v} :
                   tx[u].pc = "claim" => tx[u].sel \cap tx[v].sel = {})
    /\ [][\A w \in Workers :
            ClaimReadyReturn(w) =>
              \A j \in tx[w].sel :
                 jobs'[j].status = "running" /\ jobs'[j].worker_id = w]_vars

(* Both rows were due at time 0; w1's call returned both while w2's        *)
(* overlapping call selected nothing.                                      *)
ClaimCompletenessWitness ==
    /\ JobIds \subseteq Rows
    /\ \A j \in JobIds :
         /\ jobs[j].status = "running" /\ jobs[j].worker_id = "w1"
         /\ jobs[j].lease_expires_at = default_lease_ms
    /\ now = 0
    /\ tx["w2"].pc = "claim" /\ tx["w2"].sel = {}

(* C17: version monotonicity.  A job's version is at least 1, never        *)
(* decreases, and grows on every write that changes the job's row (claim,  *)
(* success, retry, dead-letter, heartbeat, reclaim).                       *)
VersionMonotonicity ==
    /\ [](\A j \in Rows : jobs[j].version >= 1)
    /\ [][\A j \in Rows \cap DOMAIN jobs' :
            /\ jobs'[j].version >= jobs[j].version
            /\ jobs'[j] # jobs[j] => jobs'[j].version > jobs[j].version]_vars

(* C18: dispatcher routing by execution mode.  Dispatching a Background    *)
(* command calls enqueue exactly once, with the job_type of its JobSpec    *)
(* and its serialized payload, and never schedule; dispatching a           *)
(* Scheduled{run_at} command calls schedule exactly once, with its         *)
(* job_type, its payload and exactly that run_at, and never enqueue.       *)
DispatcherRouting ==
    [][\A cmd \in DispatchedCommands :
         DispatchOne(cmd) =>
           /\ cmd.name = "AutoSerializeBackgroundCommand" =>
                /\ enqueued' =
                     Append(enqueued,
                            <<"auto:background",
                              [task |-> cmd.task,
                               user_id |-> ToString(cmd.user_id)]>>)
                /\ scheduled' = scheduled
           /\ cmd.name = "AutoSerializeScheduledCommand" =>
                /\ scheduled' =
                     Append(scheduled,
                            <<"auto:scheduled",
                              [reminder |-> cmd.reminder,
                               run_at |-> ToString(cmd.run_at)],
                              cmd.run_at>>)
                /\ enqueued' = enqueued]_vars

(* One Background and one Scheduled command were dispatched: one entry in  *)
(* each list of the queue.                                                 *)
DispatcherRoutingWitness ==
    /\ Len(enqueued) = 1 /\ enqueued[1][1] = "auto:background"
    /\ enqueued[1][2].task = "send_email"
    /\ Len(scheduled) = 1 /\ scheduled[1][1] = "auto:scheduled"
    /\ scheduled[1][3] = HourMs
    /\ results = <<"Ok", "Ok">>

FailureLinearizable ==
    /\ [](\A w \in Workers :
            tx[w].pc = "fail" =>
              /\ tx[w].job \in Rows /\ lock[tx[w].job] = w
              /\ tx[w].attempt = jobs[tx[w].job].attempt
              /\ tx[w].max_retries = jobs[tx[w].job].max_retries
              /\ \A v \in Workers \ {w} :
                   ~(tx[v].pc = "fail" /\ tx[v].job = tx[w].job))
    /\ [][\A w \in Workers, j \in JobIds :
            MarkFailedStep(w, j) /\ jobs' # jobs =>
              IF tx[w].kind = "Retryable"
                   /\ jobs[j].attempt < jobs[j].max_retries
              THEN /\ jobs'[j].status = "pending"
                   /\ jobs'[j].attempt = jobs[j].attempt + 1
              ELSE /\ jobs'[j].status = "dead_letter"
                   /\ jobs'[j].attempt = jobs[j].attempt]_vars

(* After an earlier mark_failed committed the retry to attempt 2, w2's     *)
(* call is in flight and has read attempt 2.                               *)
FailureLinearizableWitness ==
    /\ "j1" \in Rows
    /\ jobs["j1"].attempt = 2 /\ jobs["j1"].error_kind = "retryable"
    /\ tx["w2"].pc = "fail" /\ tx["w2"].job = "j1" /\ tx["w2"].attempt = 2
    /\ tx["w1"].pc = "idle"

(* C29: the status failed is never written.  No job ever has status        *)
(* failed, so stats() reports failed = 0 and its other four counts sum to  *)
(* the number of jobs.                                                     *)
FailedNeverWritten ==
    /\ \A j \in Rows : jobs[j].status # "failed"
    /\ stats.failed = 0
    /\ stats.pending + stats.running + stats.succeeded + stats.dead_letter
         = Cardinality(Rows)

(* A job whose failure was final: it is counted as dead_letter, not as     *)
(* failed.                                                                 *)
FailedNeverWrittenWitness ==
    /\ "j1" \in Rows
    /\ jobs["j1"].status = "dead_letter" /\ jobs["j1"].error_message = "boom"
    /\ stats.dead_letter = 1 /\ stats.failed = 0

(* A step that is a mark_succeeded, heartbeat or mark_failed call on j     *)
(* issued by w.                                                            *)
ReportBy(w, j) ==
    MarkSucceeded(w, j) \/ Heartbeat(w, j) \/ MarkFailedStep(w, j)

(* C28: lease ownership.  A mark_succeeded, mark_failed or heartbeat call  *)
(* changes a job's status, attempt or lease_expires_at only when it can    *)
(* have been issued by the worker recorded in the job's worker_id.         *)
LeaseOwnership ==
    [][\A j \in Rows :
         /\ \E w \in Workers : ReportBy(w, j)
         /\ \/ jobs'[j].status # jobs[j].status
            \/ jobs'[j].attempt # jobs[j].attempt
            \/ jobs'[j].lease_expires_at # jobs[j].lease_expires_at
         => \E w \in Workers : ReportBy(w, j) /\ jobs[j].worker_id = w]_vars

Abandoned(j) ==
    j \in Rows /\ jobs[j].status = "running" /\ jobs[j].lease_expires_at < now

(* C26: abandoned-lease recovery.  A running job whose lease has expired   *)
(* is selected by no claim_ready and changes only by reclaim_expired;      *)
(* reclaim_expired leaves it pending with its run_at unchanged and due, so *)
(* a claim_ready that finds it unlocked and has limit for every due row    *)
(* selects it; and while both keep being called it is eventually running   *)
(* again under a live lease.                                               *)
LeaseRecovery ==
    /\ [][\A j \in JobIds :
            Abandoned(j) =>
              /\ \A w \in Workers : tx'[w].pc = "claim" => j \notin tx'[w].sel
              /\ jobs'[j] # jobs[j] => \E w \in Workers : ReclaimExpired(w)
              /\ (\E w \in Workers : ReclaimExpired(w)) =>
                   /\ jobs'[j].status = "pending"
                   /\ jobs'[j].run_at = jobs[j].run_at
                   /\ jobs'[j].run_at <= now]_vars
    /\ [][\A w \in Workers, limit \in 1..MaxLimit, j \in Due :
            /\ ClaimReadyLock(w, limit)
            /\ ~LockedByOther(j, w)
            /\ limit >= Cardinality(Due)
            => j \in tx'[w].sel]_vars
    /\ \A j \in JobIds :
         Abandoned(j) ~>
           (jobs[j].status = "running" /\ jobs[j].lease_expires_at >= now)

(* j1 was reclaimed at this instant, after its lease had run out, and a    *)
(* claim_ready call has already selected it again.                         *)
LeaseRecoveryWitness ==
    /\ JobIds \subseteq Rows
    /\ jobs["j1"].status = "pending" /\ jobs["j1"].updated_at = now
    /\ now > default_lease_ms
    /\ tx["w2"].pc = "claim" /\ "j1" \in tx["w2"].sel

(* C27: bounded retries and eventual termination.  When every claim is     *)
(* followed by a report from the claiming worker, a job is claimed only at *)
(* attempts 1 .. max(1, max_retries), every return to pending uses up an   *)
(* attempt, and the job eventually is succeeded or dead_letter.            *)
RetriesBounded ==
    /\ [][\A w \in Workers, j \in JobIds :
            ClaimReturns(w, j) =>
              jobs[j].attempt <= (IF jobs[j].max_retries > 1
                                  THEN jobs[j].max_retries ELSE 1)]_vars
    /\ [][\A j \in Rows :
            jobs[j].status = "running" /\ jobs'[j].status = "pending" =>
              jobs'[j].attempt = jobs[j].attempt + 1]_vars
    /\ <>(\A j \in Rows : jobs[j].status \in Terminal)
IsEventItem(item) == item.type = "Event"

EventsSeen(s) == SelectSeq(subs[s].seen, IsEventItem)

(* C21: the events a subscriber has observed are events of the emit log   *)
(* emitted after its subscribe returned, in emission order; a receiver    *)
(* that has lagged gets Lagged(n), n the events it will not see, and its  *)
(* next item is the newest event; a receiver that has not lagged gets the *)
(* event at its cursor.                                                   *)
PerSubscriberFIFO ==
    /\ [](\A s \in Subscribers :
            \A i \in 1..Len(EventsSeen(s)) :
              /\ EventsSeen(s)[i].at > subs[s].since
              /\ EventsSeen(s)[i].at <= Len(bus)
              /\ EventsSeen(s)[i].event = bus[EventsSeen(s)[i].at]
              /\ i > 1 => EventsSeen(s)[i - 1].at < EventsSeen(s)[i].at)
    /\ [][\A s \in Subscribers :
            subs[s].state = "live" /\ subs'[s].seen # subs[s].seen =>
              IF subs[s].next < Oldest
              THEN /\ subs'[s].seen =
                        Append(subs[s].seen,
                               [type |-> "Lagged", n |-> Len(bus) - subs[s].next])
                   /\ subs'[s].next = Len(bus)
              ELSE /\ subs'[s].seen =
                        Append(subs[s].seen,
                               [type |-> "Event", event |-> bus[subs[s].next],
                                at |-> subs[s].next])
                   /\ subs'[s].next = subs[s].next + 1]_vars

PerSubscriberFIFOWitness ==
    /\ Len(bus) = BusCapacity + 1
    /\ subs["tap"].since = 0
    /\ subs["tap"].seen =
         << [type |-> "Lagged", n |-> BusCapacity],
            [type |-> "Event", event |-> bus[Len(bus)], at |-> Len(bus)] >>

(* C22: emit is possible whatever the receivers' states are, full and      *)
(* dropped ones included, and changes no live receiver; no receiver sees  *)
(* an event of the log twice; and a receiver that has kept up with the    *)
(* log has seen every event emitted since it subscribed.                  *)
EmitNeverBlocks ==
    /\ [](Len(bus) < MaxEmit => \A ev \in FetchEvent : ENABLED Emit(ev))
    /\ [][bus' # bus =>
            /\ \E ev \in FetchEvent : bus' = Append(bus, ev)
            /\ \A s \in Subscribers :
                 subs[s].state = "live" => subs'[s] = subs[s]]_vars
    /\ [](\A s \in Subscribers :
            \A i, k \in 1..Len(EventsSeen(s)) :
              i # k => EventsSeen(s)[i].at # EventsSeen(s)[k].at)
    /\ [](\A s \in Subscribers :
            /\ subs[s].state = "live"
            /\ subs[s].next = Len(bus) + 1
            /\ Len(EventsSeen(s)) = Len(subs[s].seen)
            => /\ Len(subs[s].seen) = Len(bus) - subs[s].since
               /\ \A i \in 1..Len(subs[s].seen) :
                    subs[s].seen[i].event = bus[subs[s].since + i])

EmitNeverBlocksWitness ==
    /\ Len(bus) = MaxEmit
    /\ Lagging("tap")
    /\ subs["log"].state = "pruned"
    /\ subs["runtime"].state = "live"
    /\ Len(subs["runtime"].seen) = MaxEmit
    /\ subs["runtime"].seen[MaxEmit].at = MaxEmit

(* C23: at most one decide call of the machine is executing, and the      *)
(* events passed to decide are the events its receiver yielded, in that   *)
(* order, each decided before the next is taken.                          *)
MachineSerialization ==
    /\ mach.active <= 1
    /\ mach.active = 1 <=> mach.pc = "deciding"
    /\ Len(mach.decided) = Len(EventsSeen("runtime"))
    /\ \A i \in 1..Len(mach.decided) :
         mach.decided[i] = EventsSeen("runtime")[i].at
    /\ Len(mach.commands) = Len(mach.decided) - mach.active
    /\ \A i \in 1..Len(mach.commands) :
         mach.commands[i] = decide(bus[mach.decided[i]])

MachineSerializationWitness ==
    /\ Len(mach.commands) = 2
    /\ mach.pc = "deciding"
    /\ mach.event = {bus[MaxEmit]}
    /\ mach.commands[1] # None
    /\ mach.commands[2] = None

====
